---- MODULE Spec2Model ----
(***************************************************************************)
(* DevSentinel incident lifecycle: IncidentHandler.process_incident, its   *)
(* repair subroutine _attempt_auto_repair, and the API entry points        *)
(* trigger_repair and delete_incident, over the incidents table.           *)
(*                                                                         *)
(* Every Repository call (one SQLAlchemy session, one transaction) is one  *)
(* atomic step.  A collaborator call (Gemini, Kestra, Cline) touches no    *)
(* stored state, so it is taken together with the Repository call that     *)
(* follows it in the same handler.  Request tasks are interchangeable, so  *)
(* they are numbered in the order in which their requests arrive.  Every   *)
(* operation reaches a row through its primary key alone and reads no      *)
(* other row, so the rows are independent and one incident is followed.    *)
(*                                                                         *)
(* _create_incident_record and _update_incident_status commit and then     *)
(* refresh: a failure of the refresh raises after the write is stored.     *)
(* The locals of a call that has returned or raised are visible in the     *)
(* state that ends the call and released at the next step.                 *)
(***************************************************************************)
EXTENDS Integers, Sequences, FiniteSets, TLC

\* ------------------------------------------------------------------ bounds
MaxTasks == 2

Tasks == 1..MaxTasks

\* the primary keys the id default hands out
Ids == {1}

\* ------------------------------------------------------------------ values
\* Python's None where a string is expected
None == "<None>"

PENDING == "pending"
ANALYZING == "analyzing"
REPAIRING == "repairing"
RESOLVED == "resolved"
FAILED == "failed"
IncidentStatus == {PENDING, ANALYZING, REPAIRING, RESOLVED, FAILED}

\* str(x) inside an f-string
Str(x) == IF x = None THEN "None" ELSE x

\* Optional[Dict[str, Any]]: None, or a dict given as its set of items
NoMeta == [none |-> TRUE, items |-> {}]
Dict(items) == [none |-> FALSE, items |-> items]
Keys(meta) == {p[1] : p \in meta.items}

\* an assignment that is lost: the dict stays as it was
SetItem_lost(meta, key, value) == meta

\* d[key] = value, after "if d is None: d = {}"
SetItem(meta, key, value) ==
    Dict({p \in meta.items : p[1] # key} \cup {<<key, value>>})

\* the rows of a table that is listed, the readings of the clock at their
\* creation, and the values of skip and limit
MaxRows == 3
MaxClock == 2
Rows == 1..MaxRows
Clock == 1..MaxClock
Pages == 0..MaxRows

\* the intake requests: IncidentRequest with caller-supplied metadata
Requests ==
    { [title |-> "500 errors", description |-> "users endpoint fails",
       severity |-> "high", source |-> "monitor", metadata |-> m] :
      m \in {Dict({<<"error_details", "trace">>})} }

NoRequest ==
    [title |-> None, description |-> None, severity |-> None,
     source |-> None, metadata |-> NoMeta]

\* what _update_incident_status returns when the row is missing: None
NoneInc ==
    [id |-> 0, title |-> None, description |-> None, severity |-> None,
     status |-> None, source |-> None, resolution |-> None,
     kestra_execution_id |-> None, incident_metadata |-> NoMeta,
     created_at |-> 0]

\* the row IncidentModel(...) inserts; the id and created_at defaults are
\* drawn by the database layer.  updated_at, a clock reading that no branch
\* of the code looks at, is left out of the row and of the response.
IncidentModel(id, req) ==
    [id |-> id, title |-> req.title, description |-> req.description,
     severity |-> req.severity, status |-> PENDING, source |-> req.source,
     resolution |-> None, kestra_execution_id |-> None,
     incident_metadata |-> req.metadata, created_at |-> id]

\* collaborator outcomes
AnalysisText == "root cause: pool exhausted"
SuggestionText == "restart the pool"
ExecutionId == "exec_1"
AdvisorOutcomes == {"text", "empty", "error"}
TriggerOutcomes == {"handle", "error"}

\* what the Repair Executor hands back: a dict, or an exception
\* cli names what the Cline CLI did when the dict is ClineRunner's, and is
\* "stub" for an executor that reports failure or raises
NoResult ==
    [kind |-> "none", success |-> FALSE, resolution |-> None, error |-> None,
     cli |-> "none"]

\* what the Cline CLI does: exits 0 having printed text or nothing, exits
\* non-zero, runs into CLINE_TIMEOUT, or is not installed; "unwritable": the
\* task file cannot be written and the CLI is not started
CliOutcomes == {"ok", "silent", "nonzero", "timeout", "missing", "unwritable"}

\* ClineRunner._create_task_file: the exception of mkdir or write_text
_create_task_file(cli) ==
    IF cli = "unwritable" THEN [raises |-> "OSError"] ELSE [raises |-> None]

\* ClineRunner._run_cline_command: stdout, or the exception it raises
_run_cline_command(cli) ==
    IF cli = "ok" THEN [raises |-> None, stdout |-> "fixed"]
    ELSE IF cli = "silent" THEN [raises |-> None, stdout |-> ""]
    ELSE IF cli = "nonzero" THEN [raises |-> "Cline failed", stdout |-> None]
    ELSE IF cli = "timeout" THEN [raises |-> "Timeout after", stdout |-> None]
    ELSE [raises |-> "FileNotFoundError", stdout |-> None]

\* an executor that reports what went wrong with the CLI as a failure
execute_repair_strict(cli) ==
    LET result == IF _create_task_file(cli).raises # None
                  THEN [raises |-> _create_task_file(cli).raises, stdout |-> None]
                  ELSE _run_cline_command(cli)
    IN IF result.raises = None
       THEN [kind |-> "result", success |-> TRUE, resolution |-> result.stdout,
             error |-> None, cli |-> cli]
       ELSE [kind |-> "result", success |-> FALSE, resolution |-> None,
             error |-> result.raises, cli |-> cli]

\* ClineRunner.execute_repair: the dict it returns on each path; both
\* handlers, of FileNotFoundError and of Exception, answer success
execute_repair(cli) ==
    LET result == IF _create_task_file(cli).raises # None
                  THEN [raises |-> _create_task_file(cli).raises, stdout |-> None]
                  ELSE _run_cline_command(cli)
        text == IF result.raises = None THEN result.stdout
                ELSE IF result.raises = "FileNotFoundError"
                THEN "Simulated repair complete (Cline CLI unavailable)"
                ELSE "Simulated repair complete (Cline fallback)"
    IN [kind |-> "result", success |-> TRUE, resolution |-> text,
        error |-> None, cli |-> cli]

\* the results of ClineRunner
ClineOutcomes == { execute_repair(cli) : cli \in CliOutcomes }

\* what the Repair Executor, as a collaborator, hands back: a dict that
\* reports success with a text or with an empty one, a dict that reports
\* failure, or an exception; _attempt_auto_repair has a branch or a handler
\* for each
ExecOutcomes ==
    { [kind |-> "result", success |-> TRUE, resolution |-> "fixed",
       error |-> None, cli |-> "stub"],
      [kind |-> "result", success |-> TRUE, resolution |-> "",
       error |-> None, cli |-> "stub"],
      [kind |-> "result", success |-> FALSE, resolution |-> None,
       error |-> "patch rejected", cli |-> "stub"],
      [kind |-> "raise", success |-> FALSE, resolution |-> None,
       error |-> None, cli |-> "stub"] }

\* exception messages
RepoError == "database is locked"
AttributeError == "NoneType object has no attribute"
CancelledError == "CancelledError"

\* the IncidentResponse built from an ORM object
\* a conversion that leaves the metadata out of the response
_to_response_bare(incident) ==
    [id |-> incident.id, title |-> incident.title,
     description |-> incident.description, severity |-> incident.severity,
     status |-> incident.status, source |-> incident.source,
     created_at |-> incident.created_at, resolution |-> incident.resolution,
     kestra_execution_id |-> incident.kestra_execution_id,
     metadata |-> NoMeta]

_to_response(incident) ==
    [id |-> incident.id, title |-> incident.title,
     description |-> incident.description, severity |-> incident.severity,
     status |-> incident.status, source |-> incident.source,
     created_at |-> incident.created_at, resolution |-> incident.resolution,
     kestra_execution_id |-> incident.kestra_execution_id,
     metadata |-> incident.incident_metadata]

\* ----------------------------------------------------------- list_incidents
\* the rows a table holds
StoredIds(table) == {i \in DOMAIN table : table[i] # NoneInc}

\* an ordering that puts the oldest row first
FirstOf_oldest(table, S) ==
    CHOOSE i \in S :
        \A j \in S : \/ table[i].created_at < table[j].created_at
                      \/ (table[i].created_at = table[j].created_at /\ i <= j)

\* order_by(IncidentModel.created_at.desc()): the row that comes first among
\* the rows S; rows of equal created_at come in their order in the table
FirstOf(table, S) ==
    CHOOSE i \in S :
        \A j \in S : \/ table[i].created_at > table[j].created_at
                      \/ (table[i].created_at = table[j].created_at /\ i <= j)

RECURSIVE OrderBy(_, _)
OrderBy(table, S) ==
    IF S = {} THEN << >>
    ELSE LET i == FirstOf(table, S)
         IN  <<table[i]>> \o OrderBy(table, S \ {i})

\* .offset(skip)
Offset(rows, skip) == SubSeq(rows, skip + 1, Len(rows))

\* .limit(limit)
Limit(rows, limit) ==
    SubSeq(rows, 1, IF limit < Len(rows) THEN limit ELSE Len(rows))

\* [self._to_response(inc) for inc in incidents]
list_incidents(table, skip, limit) ==
    LET incidents == Limit(Offset(OrderBy(table, StoredIds(table)), skip), limit)
    IN  [k \in 1..Len(incidents) |-> _to_response(incidents[k])]

\* no response: the call has not returned one
NoResponse == _to_response(NoneInc)

\* a lookup that answers with an empty record when no row has the id
get_incident_blank(store, incident_id) ==
    IF incident_id \in Ids /\ store[incident_id] # NoneInc
    THEN _to_response(store[incident_id])
    ELSE [NoResponse EXCEPT !.id = incident_id]

\* IncidentHandler.get_incident: query(...).first(), None without a row
get_incident(store, incident_id) ==
    IF incident_id \in Ids /\ store[incident_id] # NoneInc
    THEN _to_response(store[incident_id])
    ELSE NoResponse

\* ------------------------------------------------------------------- state
VARIABLES
    db,             \* the incidents table: id -> row, NoneInc where no row
    nextId,         \* the next primary key the id default hands out
    ENABLE_AUTO_REPAIR,  \* settings.ENABLE_AUTO_REPAIR
    INCIDENTS,      \* the list of the in-memory detector service
    task            \* per request task: its position and local variables

vars == <<db, nextId, ENABLE_AUTO_REPAIR, task, INCIDENTS>>

\* A task's frame.  analysis, execution_id and resolution_suggestions hold the
\* outcome of the collaborator call of the step just taken; repo_failed names
\* the Repository calls of this task that raised, except the saves inside the
\* handlers of the Advisor and Trigger steps; swallowed names such a save of
\* the step just taken when it raised; calls lists, in the order in which
\* they were started, the create and the collaborator calls of this task.
IdleTask ==
    [op |-> "idle", pc |-> "idle", request |-> NoRequest, incident_id |-> 0,
     db_incident |-> NoneInc, incident |-> NoneInc,
     analysis |-> "none", execution_id |-> "none",
     resolution_suggestions |-> "none",
     repair_result |-> NoResult, executor_calls |-> 0,
     exc |-> None, raised |-> None, response |-> NoResponse,
     http |-> 0, body |-> None, repo_failed |-> {}, swallowed |-> "none",
     calls |-> << >>, skip |-> 0, limit |-> 0, listing |-> << >>]

\* l with the fields of r replaced
Upd(l, r) == r @@ l

\* the frame once the call has returned or raised: its locals are gone
Finished(l) ==
    Upd(l, [request |-> NoRequest, db_incident |-> NoneInc, incident |-> NoneInc,
            analysis |-> "none", execution_id |-> "none",
            resolution_suggestions |-> "none", swallowed |-> "none"])

\* how a call ends
Ended == {"returned", "raised"}

\* a call that has ended and whose result the caller has taken away
DoneTask == Upd(IdleTask, [op |-> "done", pc |-> "done"])

\* the result of a call that has ended is with its caller by the time the
\* service takes another step: only that the call is over is kept
Collected(l) == IF l.pc \in Ended THEN DoneTask ELSE l

\* the step of task t: its frame becomes l, closed when the call has ended
Step(t, l) ==
    /\ task' = [u \in Tasks |->
                   IF u = t THEN IF l.pc \in Ended THEN Finished(l) ELSE l
                            ELSE Collected(task[u])]
    /\ UNCHANGED INCIDENTS

\* the frame at the start of a step: the notes on the step before are dropped
Frame(t) == Upd(task[t], [swallowed |-> "none"])

\* the note of a save that raised inside a swallowing handler
Swallowed(site, fail) == [swallowed |-> IF fail THEN site ELSE "none"]

Init ==
    /\ db = [i \in Ids |-> NoneInc]
    /\ nextId = 1
    /\ ENABLE_AUTO_REPAIR \in BOOLEAN
    /\ task = [t \in Tasks |-> IdleTask]
    /\ INCIDENTS = << >>

\* requests are numbered in arrival order
Arrives(t) ==
    /\ task[t].op = "idle"
    /\ IF t = 1 THEN TRUE ELSE task[t - 1].op # "idle"

\* a Repository call either commits or raises; reached = FALSE: no call is made
RepoOutcome(reached, fail) == fail => reached

\* a call that commits and then reads the row back (session.commit(), then
\* session.refresh(...)) raises either up to the commit, and nothing is
\* stored, or late, in the refresh, and what it committed stays
LateOutcome(fail, late, commits) == late => (fail /\ commits)

\* the name under which a failure of the call at site is recorded
Site(site, late) == IF late THEN site \o "_refresh" ELSE site

\* the task's record of a Repository call that raised
Failed(l, site, fail) ==
    [repo_failed |-> IF fail THEN l.repo_failed \cup {site} ELSE l.repo_failed]

\* --------------------------------------------------------- the Repository
\* an update that changes the status of the object it returns and does not
\* commit it
_update_incident_status_unsaved(store, incident_id, status) ==
    IF incident_id \in Ids /\ store[incident_id] # NoneInc
    THEN [db |-> store,
          incident |-> [store[incident_id] EXCEPT !.status = status]]
    ELSE [db |-> store, incident |-> NoneInc]

\* an update that writes a fresh row holding only the id and the status
_update_incident_status_bare(store, incident_id, status) ==
    IF incident_id \in Ids /\ store[incident_id] # NoneInc
    THEN LET row == [NoneInc EXCEPT !.id = incident_id, !.status = status]
         IN  [db |-> [store EXCEPT ![incident_id] = row], incident |-> row]
    ELSE [db |-> store, incident |-> NoneInc]

\* query(...).first(); if incident: status = ...; commit; refresh; return incident
_update_incident_status(store, incident_id, status) ==
    IF incident_id \in Ids /\ store[incident_id] # NoneInc
    THEN LET row == [store[incident_id] EXCEPT !.status = status]
         IN  [db |-> [store EXCEPT ![incident_id] = row], incident |-> row]
    ELSE [db |-> store, incident |-> NoneInc]

\* a save that writes the metadata of the snapshot and leaves the other
\* columns of the stored row as they are
_save_incident_metadata(store, incident) ==
    [store EXCEPT ![incident.id].incident_metadata = incident.incident_metadata]

\* session.merge(incident): the whole snapshot is written over the row with
\* that primary key, and inserted when there is no such row
_save_incident(store, incident) ==
    [store EXCEPT ![incident.id] = incident]

\* ------------------------------------------------------- process_incident
\* the handler of "except Exception as e" at the top level: its first line
\* formats db_incident.id, which raises when db_incident is None
EnterHandler(db_incident, e) ==
    IF db_incident = NoneInc
    THEN [pc |-> "raised", raised |-> AttributeError, exc |-> e]
    ELSE [pc |-> "h_update", exc |-> e]

\* _create_incident_record, called outside the try block
CreateIncidentRecord(t) ==
    /\ Arrives(t)
    /\ nextId \in Ids
    /\ \E req \in Requests, fail \in BOOLEAN, late \in BOOLEAN :
         /\ RepoOutcome(TRUE, fail)
         /\ LateOutcome(fail, late, TRUE)
         /\ LET l == Upd(task[t], [op |-> "process", request |-> req,
                                   calls |-> <<"create">>]
                                  @@ Failed(task[t], Site("create", late), fail))
                row == IncidentModel(nextId, req)
            IN IF fail
               THEN /\ Step(t, Upd(l, [pc |-> "raised", raised |-> RepoError]))
                    /\ db' = IF late THEN [db EXCEPT ![nextId] = row] ELSE db
                    /\ nextId' = IF late THEN nextId + 1 ELSE nextId
               ELSE /\ db' = [db EXCEPT ![nextId] = row]
                    /\ nextId' = nextId + 1
                    /\ Step(t, Upd(l, [pc |-> "analyzing", incident_id |-> nextId,
                                       db_incident |-> row]))
    /\ UNCHANGED ENABLE_AUTO_REPAIR

\* db_incident = await self._update_incident_status(db_incident.id, ANALYZING)
UpdateAnalyzing(t) ==
    /\ task[t].pc = "analyzing"
    /\ \E fail \in BOOLEAN, late \in BOOLEAN :
         /\ RepoOutcome(TRUE, fail)
         /\ LET l == Upd(task[t], Failed(task[t], Site("analyzing", late), fail))
                r == _update_incident_status(db, l.db_incident.id, ANALYZING)
            IN /\ LateOutcome(fail, late, r.incident # NoneInc)
               /\ IF fail
                  THEN /\ Step(t, Upd(l, EnterHandler(l.db_incident, RepoError)))
                       /\ db' = IF late THEN r.db ELSE db
                  ELSE /\ db' = r.db
                       /\ Step(t, Upd(l, [pc |-> "analysis", db_incident |-> r.incident]))
    /\ UNCHANGED <<nextId, ENABLE_AUTO_REPAIR>>

\* what the Gemini backend does with a prompt: there is no model (no API key
\* or no model could be initialised), generate_content raises, the response
\* has no text, or it has text
GeminiBackends == {"unconfigured", "raises", "blank", "answers"}

\* GeminiClient._generate: None without a model, None in "except Exception",
\* None for a response without text, the text otherwise
_generate(backend) == IF backend = "answers" THEN "text" ELSE "empty"

\* a test that takes every answer of the Advisor, an empty one too, for text
AnalysisPresent_any(out) == out # "error"

\* "if analysis:" after the call returned: false for None and for ""
AnalysisPresent(out) == out = "text"

\* step 3: gemini_client.generate_incident_analysis, and on text the merge
\* into incident_metadata and _save_incident; every exception is swallowed,
\* that of db_incident.incident_metadata with db_incident None too
GenerateAnalysis(t) ==
    /\ task[t].pc = "analysis"
    /\ \E out \in AdvisorOutcomes, fail \in BOOLEAN :
         LET l == task[t]
             saves == AnalysisPresent(out) /\ l.db_incident # NoneInc
             snap == [l.db_incident EXCEPT !.incident_metadata =
                         SetItem(@, "ai_analysis", AnalysisText)]
         IN /\ RepoOutcome(saves, fail)
            /\ db' = IF saves /\ ~fail THEN _save_incident(db, snap) ELSE db
            /\ Step(t, Upd(l, [pc |-> "trigger", analysis |-> out,
                               calls |-> Append(l.calls, "analysis"),
                               db_incident |-> IF saves THEN snap ELSE l.db_incident]
                              @@ Swallowed("save_analysis", fail)))
    /\ UNCHANGED <<nextId, ENABLE_AUTO_REPAIR>>

\* a pipeline in which a failed trigger call is fatal instead of tolerated
AfterTrigger_fatal(out) ==
    IF out = "error"
    THEN [pc |-> "h_update", exc |-> "kestra unavailable"]
    ELSE [pc |-> IF ENABLE_AUTO_REPAIR THEN "repairing" ELSE "pending"]

\* a pipeline that goes back to the Advisor analysis after the Trigger call
AfterTrigger_again(out) ==
    [pc |-> "analysis"]

\* after step 4, whatever its outcome: the handler around the trigger call
\* logs a warning and control reaches "if settings.ENABLE_AUTO_REPAIR"
AfterTrigger(out) ==
    [pc |-> IF ENABLE_AUTO_REPAIR THEN "repairing" ELSE "pending"]

\* a step 4 that stores a handle whether or not the call returned one
TriggerReturned_always(out) == out # "not called"

\* execution_id = await ...trigger_incident_flow(...) returned: the two
\* statements after it run only then
TriggerReturned(out) == out = "handle"

\* step 4: kestra_client.trigger_incident_flow(incident_id=db_incident.id, ...),
\* then kestra_execution_id and _save_incident; every exception is swallowed.
\* With db_incident None the argument db_incident.id raises before the call.
TriggerWorkflow(t) ==
    /\ task[t].pc = "trigger"
    /\ \E out \in TriggerOutcomes \cup {"not called"}, fail \in BOOLEAN :
         LET l == Frame(t)
             saves == TriggerReturned(out)
             snap == [l.db_incident EXCEPT !.kestra_execution_id = ExecutionId]
         IN /\ (out = "not called") <=> (l.db_incident = NoneInc)
            /\ RepoOutcome(saves, fail)
            /\ db' = IF saves /\ ~fail THEN _save_incident(db, snap) ELSE db
            /\ Step(t, Upd(l, AfterTrigger(out) @@
                              [analysis |-> "none", execution_id |-> out,
                               calls |-> IF out = "not called" THEN l.calls
                                         ELSE Append(l.calls, "trigger"),
                               db_incident |-> IF saves THEN snap ELSE l.db_incident]
                              @@ Swallowed("save_kestra", fail)))
    /\ UNCHANGED <<nextId, ENABLE_AUTO_REPAIR>>

\* step 5 with auto-repair disabled: _update_incident_status(id, status) and
\* return self._to_response(db_incident); db_incident.id and the response of
\* None raise into the top-level handler
MarkStatusAndReturn(t, status) ==
    /\ task[t].pc = "pending"
    /\ \E fail \in BOOLEAN, late \in BOOLEAN :
         LET l == Upd(Frame(t), [execution_id |-> "none"])
             reached == l.db_incident # NoneInc
             r == _update_incident_status(db, l.db_incident.id, status)
             f == Failed(l, Site("pending", late), fail)
         IN /\ RepoOutcome(reached, fail)
            /\ LateOutcome(fail, late, r.incident # NoneInc)
            /\ db' = IF reached /\ (~fail \/ late) THEN r.db ELSE db
            /\ Step(t, IF ~reached
                       THEN Upd(l, EnterHandler(NoneInc, AttributeError))
                       ELSE IF fail
                       THEN Upd(l, EnterHandler(l.db_incident, RepoError) @@ f)
                       ELSE IF r.incident = NoneInc
                       THEN Upd(l, EnterHandler(NoneInc, AttributeError))
                       ELSE Upd(l, [pc |-> "returned",
                                    response |-> _to_response(r.incident)]))
    /\ UNCHANGED <<nextId, ENABLE_AUTO_REPAIR>>

\* a pipeline whose disabled branch leaves the status at ANALYZING
MarkPending_analyzing(t) == MarkStatusAndReturn(t, ANALYZING)

\* db_incident = await self._update_incident_status(db_incident.id, PENDING)
MarkPending(t) == MarkStatusAndReturn(t, PENDING)

\* the top-level handler, first half: _update_incident_status(id, FAILED);
\* with the row gone it returns None and db_incident.resolution = ... raises
HandlerUpdate(t) ==
    /\ task[t].pc = "h_update"
    /\ \E fail \in BOOLEAN, late \in BOOLEAN :
         /\ RepoOutcome(TRUE, fail)
         /\ LET l == Upd(task[t], Failed(task[t], Site("h_update", late), fail))
                r == _update_incident_status(db, l.db_incident.id, FAILED)
            IN /\ LateOutcome(fail, late, r.incident # NoneInc)
               /\ IF fail
                  THEN /\ Step(t, Upd(l, [pc |-> "raised", raised |-> RepoError]))
                       /\ db' = IF late THEN r.db ELSE db
                  ELSE /\ db' = r.db
                       /\ Step(t, IF r.incident = NoneInc
                                  THEN Upd(l, [pc |-> "raised", raised |-> AttributeError])
                                  ELSE Upd(l, [pc |-> "h_save", db_incident |-> r.incident]))
    /\ UNCHANGED <<nextId, ENABLE_AUTO_REPAIR>>

\* a handler that stores a fixed text instead of the message of e
ProcessingFailed_generic(e) == "Processing failed"

\* the text the handler stores for the exception e
ProcessingFailed(e) == "Processing failed: " \o Str(e)

\* the top-level handler, second half: resolution, _save_incident, raise
HandlerSave(t) ==
    /\ task[t].pc = "h_save"
    /\ \E fail \in BOOLEAN :
         /\ RepoOutcome(TRUE, fail)
         /\ LET l == Upd(task[t], Failed(task[t], "h_save", fail))
                snap == [l.db_incident EXCEPT !.resolution = ProcessingFailed(l.exc)]
            IN /\ db' = IF fail THEN db ELSE _save_incident(db, snap)
               /\ Step(t, Upd(l, [pc |-> "raised",
                                  raised |-> IF fail THEN RepoError ELSE l.exc]))
    /\ UNCHANGED <<nextId, ENABLE_AUTO_REPAIR>>

\* ---------------------------------------------------- _attempt_auto_repair
\* the incident argument: db_incident from process_incident, the row read by
\* trigger_repair otherwise
RepairArgument(l) == IF l.op = "process" THEN l.db_incident ELSE l.incident

\* what the caller does when the subroutine has returned (escaped = None) or
\* let an exception escape: process_incident returns the response of its own
\* db_incident or enters its handler, trigger_repair answers 200 or 500
AfterRepair(l, escaped) ==
    IF l.op = "process"
    THEN IF escaped = None
         THEN [pc |-> "returned", response |-> _to_response(l.db_incident)]
         ELSE EnterHandler(l.db_incident, escaped)
    ELSE IF escaped = None
         THEN [pc |-> "returned", http |-> 200, body |-> "repair_triggered"]
         ELSE [pc |-> "raised", http |-> 500, raised |-> escaped]

\* incident = await self._update_incident_status(incident.id, REPAIRING).
\* An exception is caught by the subroutine's handler, whose log line formats
\* incident.id and so raises again when incident is None.
BeginRepair(t) ==
    /\ task[t].pc = "repairing"
    /\ \E fail \in BOOLEAN, late \in BOOLEAN :
         LET l == Upd(Frame(t), [execution_id |-> "none"])
             arg == RepairArgument(l)
             reached == arg # NoneInc
             r == _update_incident_status(db, arg.id, REPAIRING)
         IN /\ RepoOutcome(reached, fail)
            /\ LateOutcome(fail, late, r.incident # NoneInc)
            /\ db' = IF reached /\ (~fail \/ late) THEN r.db ELSE db
            /\ Step(t, IF ~reached THEN Upd(l, AfterRepair(l, AttributeError))
                       ELSE IF fail
                       THEN Upd(l, AfterRepair(l, None)
                                   @@ Failed(l, Site("repairing", late), fail))
                       ELSE Upd(l, [pc |-> "suggest", incident |-> r.incident]))
    /\ UNCHANGED <<nextId, ENABLE_AUTO_REPAIR>>

\* gemini_client.suggest_resolution_steps and the save of its text; the inner
\* handler swallows every exception.  With incident None the arguments raise
\* before the call, and so does incident.id in the call of execute_repair,
\* which then escapes through the subroutine's handler.
SuggestResolution(t) ==
    /\ task[t].pc = "suggest"
    /\ \E out \in AdvisorOutcomes \cup {"not called"}, fail \in BOOLEAN :
         LET l == task[t]
             saves == out = "text"
             snap == [l.incident EXCEPT !.incident_metadata =
                         SetItem(@, "resolution_suggestions", SuggestionText)]
         IN /\ (out = "not called") <=> (l.incident = NoneInc)
            /\ RepoOutcome(saves, fail)
            /\ db' = IF saves /\ ~fail THEN _save_incident(db, snap) ELSE db
            /\ Step(t, IF out = "not called"
                       THEN Upd(l, AfterRepair(l, AttributeError))
                       ELSE Upd(l, [pc |-> "execute", resolution_suggestions |-> out,
                                    calls |-> Append(l.calls, "suggest"),
                                    incident |-> IF saves THEN snap ELSE l.incident]
                                   @@ Swallowed("save_suggestions", fail)))
    /\ UNCHANGED <<nextId, ENABLE_AUTO_REPAIR>>

\* repair_result.get("resolution", "Auto-repaired successfully")
ResolutionOf(res) ==
    IF res.resolution = None THEN "Auto-repaired successfully" ELSE res.resolution

\* the status and resolution the subroutine sets from the executor's result
\* a subroutine that stores the incident as it is, whatever the result
ApplyRepairResult_unchanged(incident, res) == incident

ApplyRepairResult(incident, res) ==
    IF res.success
    THEN [incident EXCEPT !.status = RESOLVED, !.resolution = ResolutionOf(res)]
    ELSE [incident EXCEPT !.status = FAILED,
                          !.resolution = "Auto-repair failed: " \o Str(res.error)]

\* a subroutine that takes an executor that raised for one that reported
\* failure
ExecutorReturned_always(res) == TRUE

\* repair_result = await ...execute_repair(...) returned a dict: the branch
\* on it and the final save run only then
ExecutorReturned(res) == res.kind = "result"

\* cline_runner.execute_repair, the branch on its result and _save_incident;
\* an exception of the call or of the save is caught and logged
ExecuteRepairWith(t, outcomes) ==
    /\ task[t].pc = "execute"
    /\ \E res \in outcomes, fail \in BOOLEAN :
         LET l == Frame(t)
             saves == ExecutorReturned(res)
             snap == ApplyRepairResult(l.incident, res)
         IN /\ RepoOutcome(saves, fail)
            /\ db' = IF saves /\ ~fail THEN _save_incident(db, snap) ELSE db
            /\ Step(t, Upd(l, AfterRepair(l, None)
                              @@ [repair_result |-> res,
                                  calls |-> Append(l.calls, "execute"),
                                  executor_calls |-> l.executor_calls + 1]
                              @@ Failed(l, "final_save", fail)))
    /\ UNCHANGED <<nextId, ENABLE_AUTO_REPAIR>>

\* the subroutine's last step with the executor as a collaborator
ExecuteRepair(t) == ExecuteRepairWith(t, ExecOutcomes)

\* the subroutine's last step with self.cline_runner, the ClineRunner
ClineRepair(t) == ExecuteRepairWith(t, ClineOutcomes)

\* ------------------------------------------------------------------ the API
\* POST /api/repair, up to incident_handler.get_incident: 400 without an
\* incident_id (id 0 here), 404 when get_incident finds no row
TriggerRepair(t) ==
    /\ Arrives(t)
    /\ \E id \in Ids \cup {0}, fail \in BOOLEAN :
         LET l == Upd(task[t], [op |-> "repair", incident_id |-> id])
             reached == id # 0
         IN /\ RepoOutcome(reached, fail)
            /\ Step(t, IF ~reached THEN Upd(l, [pc |-> "raised", http |-> 400])
                       ELSE IF fail
                       THEN Upd(l, [pc |-> "raised", http |-> 500, raised |-> RepoError]
                                   @@ Failed(l, "get", fail))
                       ELSE IF get_incident(db, id) = NoResponse
                       THEN Upd(l, [pc |-> "raised", http |-> 404])
                       ELSE Upd(l, [pc |-> "query"]))
    /\ UNCHANGED <<db, nextId, ENABLE_AUTO_REPAIR>>

\* POST /api/repair, the second read: session.query(...).first(), and with a
\* row the call of _attempt_auto_repair; without one the function falls off
\* its end and answers null
QueryForRepair(t) ==
    /\ task[t].pc = "query"
    /\ \E fail \in BOOLEAN :
         /\ RepoOutcome(TRUE, fail)
         /\ LET l == Upd(task[t], Failed(task[t], "query", fail))
                row == db[l.incident_id]
            IN Step(t, IF fail
                       THEN Upd(l, [pc |-> "raised", http |-> 500, raised |-> RepoError])
                       ELSE IF row = NoneInc
                       THEN Upd(l, [pc |-> "returned", http |-> 200, body |-> "null"])
                       ELSE Upd(l, [pc |-> "repairing", incident |-> row]))
    /\ UNCHANGED <<db, nextId, ENABLE_AUTO_REPAIR>>

\* DELETE /api/incidents/{incident_id}
DeleteIncident(t) ==
    /\ Arrives(t)
    /\ \E id \in Ids, fail \in BOOLEAN :
         /\ RepoOutcome(TRUE, fail)
         /\ LET l == Upd(task[t], [op |-> "delete", incident_id |-> id]
                                  @@ Failed(task[t], "delete", fail))
            IN IF fail
               THEN /\ Step(t, Upd(l, [pc |-> "raised", http |-> 500,
                                       raised |-> RepoError]))
                    /\ UNCHANGED db
               ELSE IF db[id] = NoneInc
               THEN /\ Step(t, Upd(l, [pc |-> "raised", http |-> 404]))
                    /\ UNCHANGED db
               ELSE /\ Step(t, Upd(l, [pc |-> "returned", http |-> 200,
                                       body |-> "deleted"]))
                    /\ db' = [db EXCEPT ![id] = NoneInc]
    /\ UNCHANGED <<nextId, ENABLE_AUTO_REPAIR>>

\* a cancellation that the top-level handler catches like an exception of
\* the pipeline
Cancelled_caught(l) == EnterHandler(l.db_incident, CancelledError)

\* asyncio.CancelledError is a BaseException: no "except Exception" of
\* process_incident, _attempt_auto_repair or the clients catches it, and
\* the call ends with it
Cancelled(l) == [pc |-> "raised", raised |-> CancelledError]

\* the task of a call is cancelled.  The exception is raised where the task
\* is suspended: in the HTTP request of the Trigger call or in the wait for
\* the subprocess of the executor call; the Repository calls and the Advisor
\* calls run without suspending.
Cancel(t) ==
    /\ \/ task[t].pc = "trigger" /\ task[t].db_incident # NoneInc
       \/ task[t].pc = "execute"
    /\ Step(t, Upd(Frame(t), Cancelled(Frame(t))))
    /\ UNCHANGED <<db, nextId, ENABLE_AUTO_REPAIR>>

\* GET /incidents/{incident_id}: incident_handler.get_incident, 404 when it
\* returns None
GetIncident(t) ==
    /\ Arrives(t)
    /\ \E id \in Ids, fail \in BOOLEAN :
         /\ RepoOutcome(TRUE, fail)
         /\ LET l == Upd(task[t], [op |-> "get", incident_id |-> id]
                                  @@ Failed(task[t], "get", fail))
            IN Step(t, IF fail
                       THEN Upd(l, [pc |-> "raised", http |-> 500,
                                    raised |-> RepoError])
                       ELSE IF get_incident(db, id) = NoResponse
                       THEN Upd(l, [pc |-> "raised", http |-> 404])
                       ELSE Upd(l, [pc |-> "returned", http |-> 200,
                                    response |-> get_incident(db, id)]))
    /\ UNCHANGED <<db, nextId, ENABLE_AUTO_REPAIR>>

\* GET /incidents?skip=&limit=
ListIncidents(t) ==
    /\ Arrives(t)
    /\ \E skip \in Pages, limit \in Pages, fail \in BOOLEAN :
         /\ RepoOutcome(TRUE, fail)
         /\ LET l == Upd(task[t], [op |-> "list", skip |-> skip, limit |-> limit]
                                  @@ Failed(task[t], "list", fail))
            IN Step(t, IF fail
                       THEN Upd(l, [pc |-> "raised", http |-> 500,
                                    raised |-> RepoError])
                       ELSE Upd(l, [pc |-> "returned", http |-> 200,
                                    listing |-> list_incidents(db, skip, limit)]))
    /\ UNCHANGED <<db, nextId, ENABLE_AUTO_REPAIR>>

\* ------------------------------------------------- the in-memory detector
\* services/detector.py keeps its incidents in the module-level list
\* INCIDENTS; it is a service of its own, beside the database-backed one.
MaxIncidents == 3
Signals == {"db down", "disk full"}

\* hash(signal) of the running interpreter: the same for the same text, and
\* whatever the interpreter's hash seed makes it for another
HashValues == {17, 4242, 10017}
HashBuckets == 10000

Placeholder ==
    [id |-> "placeholder-incident", severity |-> "info", status |-> "pending",
     summary |-> "Initial placeholder incident", notes |-> None]

\* f"signal-{hash(signal) % 10000}", h the hash of the signal
SignalId(h) == "signal-" \o ToString(h % HashBuckets)

\* f"Detected signal: {signal[:80]}", for signals of at most 80 characters
Summary(signal) == "Detected signal: " \o signal

\* next((i for i in INCIDENTS if i.get("id") == incident_id), None), as the
\* position in the list, 0 for None
detector_get_incident(incident_id) ==
    IF \E k \in 1..Len(INCIDENTS) : INCIDENTS[k].id = incident_id
    THEN CHOOSE k \in 1..Len(INCIDENTS) :
            /\ INCIDENTS[k].id = incident_id
            /\ \A j \in 1..(k - 1) : INCIDENTS[j].id # incident_id
    ELSE 0

\* POST /incidents of the detector service: detect_from_signal(signal)
detect_from_signal ==
    /\ Len(INCIDENTS) < MaxIncidents
    /\ \E signal \in Signals, h \in HashValues :
         /\ \A k \in 1..Len(INCIDENTS) :
               INCIDENTS[k].summary = Summary(signal)
                  => INCIDENTS[k].id = SignalId(h)
         /\ INCIDENTS' = Append(INCIDENTS,
                [id |-> SignalId(h), severity |-> "unknown",
                 status |-> "pending", summary |-> Summary(signal),
                 notes |-> None])
    /\ UNCHANGED <<db, nextId, ENABLE_AUTO_REPAIR, task>>

\* POST /repair of the detector service: attempt_repair, mark_resolved
mark_resolved ==
    /\ \E incident_id \in {INCIDENTS[k].id : k \in 1..Len(INCIDENTS)}
                           \cup {"inc_unknown"} :
         LET k == detector_get_incident(incident_id)
             resolved == [status |-> "resolved",
                          notes |-> "Applied mock fix via Cline stub"]
         IN IF k = 0
            THEN /\ Len(INCIDENTS) < MaxIncidents
                 /\ INCIDENTS' = Append(INCIDENTS,
                        Upd([id |-> incident_id, severity |-> "unknown",
                             status |-> "pending",
                             summary |-> "Created during repair step.",
                             notes |-> None], resolved))
            ELSE INCIDENTS' = [INCIDENTS EXCEPT ![k] = Upd(@, resolved)]
    /\ UNCHANGED <<db, nextId, ENABLE_AUTO_REPAIR, task>>

\* ------------------------------------------------------------- specifications
PipelineStep(t) ==
    \/ CreateIncidentRecord(t)
    \/ UpdateAnalyzing(t)
    \/ GenerateAnalysis(t)
    \/ TriggerWorkflow(t)
    \/ MarkPending(t)
    \/ BeginRepair(t)
    \/ SuggestResolution(t)
    \/ HandlerUpdate(t)
    \/ HandlerSave(t)

ProcessStep(t) == PipelineStep(t) \/ ExecuteRepair(t)

Next ==
    \E t \in Tasks :
        \/ ProcessStep(t)
        \/ TriggerRepair(t)
        \/ QueryForRepair(t)
        \/ DeleteIncident(t)

Spec == Init /\ [][Next]_vars

\* a step of a call that has started: the event loop runs every task that
\* is ready, and every collaborator call returns, fails or times out
InFlightStep(t) ==
    \/ UpdateAnalyzing(t)
    \/ GenerateAnalysis(t)
    \/ TriggerWorkflow(t)
    \/ MarkPending(t)
    \/ BeginRepair(t)
    \/ SuggestResolution(t)
    \/ ExecuteRepair(t)
    \/ HandlerUpdate(t)
    \/ HandlerSave(t)
    \/ QueryForRepair(t)

SpecFair == Spec /\ \A t \in Tasks : WF_vars(InFlightStep(t))

\* process calls alone: no manual repair and no delete runs beside them
NextProcess == \E t \in Tasks : ProcessStep(t)

SpecProcess == Init /\ [][NextProcess]_vars

\* process calls with the ClineRunner as the executor
NextCline == \E t \in Tasks : PipelineStep(t) \/ ClineRepair(t)

SpecCline == Init /\ [][NextCline]_vars

\* the service configured with ENABLE_AUTO_REPAIR=true
InitEnabled ==
    /\ db = [i \in Ids |-> NoneInc]
    /\ nextId = 1
    /\ ENABLE_AUTO_REPAIR = TRUE
    /\ task = [t \in Tasks |-> IdleTask]
    /\ INCIDENTS = << >>

\* that service with the ClineRunner as the executor: process calls, which
\* all take the repair branch, manual repairs and deletes
NextClineService ==
    \E t \in Tasks :
        \/ CreateIncidentRecord(t)
        \/ UpdateAnalyzing(t)
        \/ GenerateAnalysis(t)
        \/ TriggerWorkflow(t)
        \/ BeginRepair(t)
        \/ SuggestResolution(t)
        \/ ClineRepair(t)
        \/ HandlerUpdate(t)
        \/ HandlerSave(t)
        \/ TriggerRepair(t)
        \/ QueryForRepair(t)
        \/ DeleteIncident(t)

SpecClineService == InitEnabled /\ [][NextClineService]_vars

\* a stored incident whose process call is over: a Repository failure of
\* step 2 took it to the top-level handler, which stored FAILED and the
\* resolution
StoredFailed(i, req) ==
    [IncidentModel(i, req) EXCEPT !.status = FAILED,
                                 !.resolution = ProcessingFailed(RepoError)]

InitStored ==
    /\ \E req \in Requests : db = [i \in Ids |-> StoredFailed(i, req)]
    /\ nextId = Cardinality(Ids) + 1
    /\ ENABLE_AUTO_REPAIR \in BOOLEAN
    /\ task = [t \in Tasks |-> IdleTask]
    /\ INCIDENTS = << >>

\* process calls that can be cancelled
NextCancel == \E t \in Tasks : ProcessStep(t) \/ Cancel(t)

SpecCancel == Init /\ [][NextCancel]_vars

\* process calls and get requests
NextGet == \E t \in Tasks : ProcessStep(t) \/ GetIncident(t)

SpecGet == Init /\ [][NextGet]_vars

\* the detector service after the import of services.detector
InitDetector ==
    /\ db = [i \in Ids |-> NoneInc]
    /\ nextId = 1
    /\ ENABLE_AUTO_REPAIR = FALSE
    /\ task = [t \in Tasks |-> IdleTask]
    /\ INCIDENTS = <<Placeholder>>

NextDetector == detect_from_signal \/ mark_resolved

SpecDetector == InitDetector /\ [][NextDetector]_vars

\* a table of incidents created at readings of datetime.utcnow, which two
\* creations can share
InitList ==
    /\ \E req \in Requests, c \in [Rows -> {0} \cup Clock] :
         db = [i \in Rows |->
                 IF c[i] = 0 THEN NoneInc
                 ELSE [IncidentModel(i, req) EXCEPT !.created_at = c[i]]]
    /\ nextId = MaxRows + 1
    /\ ENABLE_AUTO_REPAIR = FALSE
    /\ task = [t \in Tasks |-> IdleTask]
    /\ INCIDENTS = << >>

\* list and delete requests on that table
NextList == \E t \in Tasks : ListIncidents(t) \/ DeleteIncident(t)

SpecList == InitList /\ [][NextList]_vars

\* manual repairs and deletes of stored incidents, no process call beside them
NextStored ==
    \E t \in Tasks :
        \/ TriggerRepair(t)
        \/ QueryForRepair(t)
        \/ BeginRepair(t)
        \/ SuggestResolution(t)
        \/ ExecuteRepair(t)
        \/ DeleteIncident(t)

SpecStored == InitStored /\ [][NextStored]_vars

\* ------------------------------------------------------------------ properties
\* task t ends in this step as a call of the given operation
Ends(t, op) ==
    /\ task[t].pc \notin Ended
    /\ task'[t].pc \in Ended
    /\ task'[t].op = op

\* task t returns normally in this step as a call of process_incident
Returns(t) == Ends(t, "process") /\ task'[t].pc = "returned"

\* the row of the incident task t works on, after the step
RowAfter(t) == db'[task'[t].incident_id]

\* the row of the incident task t works on
Row(t) == db[task[t].incident_id]

\* a resolution that is present and not empty
NonEmpty(text) == text # None /\ text # ""

\* C1: a process call with auto-repair disabled that returns normally leaves
\* the stored status of its incident at PENDING at the moment it returns,
\* whatever the Advisor and the Trigger did.
C1_DisabledReturnsPending ==
    [][\A t \in Tasks :
         (Returns(t) /\ ~ENABLE_AUTO_REPAIR) => RowAfter(t).status = PENDING]_vars

\* C1 happens: a disabled process call has returned, the stored incident is
\* PENDING, and neither an analysis nor a workflow handle was stored
C1_Witness ==
    \E t \in Tasks :
        /\ task[t].op = "process" /\ task[t].pc = "returned"
        /\ ~ENABLE_AUTO_REPAIR
        /\ Row(t).status = PENDING
        /\ task[t].response.status = PENDING
        /\ task[t].response.kestra_execution_id = None
        /\ "ai_analysis" \notin Keys(task[t].response.metadata)

\* the executor handed back a result in this step of task t
ExecutorResult(t) ==
    /\ task[t].pc = "execute"
    /\ task'[t].repair_result.kind = "result"

\* C2: when the executor of a process call with auto-repair enabled reports
\* success, the stored incident ends RESOLVED with a non-empty resolution
\* equal to the executor's text.
C2_SuccessStoresResolved ==
    [][\A t \in Tasks :
         (Ends(t, "process") /\ ExecutorResult(t) /\ task'[t].repair_result.success)
         => /\ RowAfter(t).status = RESOLVED
            /\ NonEmpty(RowAfter(t).resolution)
            /\ RowAfter(t).resolution = task'[t].repair_result.resolution]_vars

\* C3: the Incident a process call returns carries the stored status and the
\* stored resolution of its incident.
C3_ResponseReflectsStored ==
    [][\A t \in Tasks :
         Returns(t) => /\ task'[t].response.status = RowAfter(t).status
                       /\ task'[t].response.resolution = RowAfter(t).resolution]_vars

\* C4: when the executor reports failure, the stored incident is FAILED with
\* a non-empty resolution and the caller sees no exception.
C4_FailureStoresFailed ==
    [][\A t \in Tasks :
         (ExecutorResult(t) /\ ~task'[t].repair_result.success)
         => /\ task'[t].pc = "returned"
            /\ RowAfter(t).status = FAILED
            /\ NonEmpty(RowAfter(t).resolution)]_vars

\* what a process call ends with, from the auto-repair flag, the Repository
\* calls that raised and the executor's outcome alone: <<how it ends, the
\* stored status>>.  The outcomes of the Advisor and of the Trigger are no
\* argument of it.
AfterHandler(fails, before) ==
    IF "h_update" \in fails THEN <<"raised", before>> ELSE <<"raised", FAILED>>

ProcessOutcome(flag, fails, res) ==
    IF "create" \in fails THEN <<"raised", None>>
    ELSE IF "create_refresh" \in fails THEN <<"raised", PENDING>>
    ELSE IF "analyzing" \in fails THEN AfterHandler(fails, PENDING)
    ELSE IF "analyzing_refresh" \in fails THEN AfterHandler(fails, ANALYZING)
    ELSE IF ~flag
    THEN IF "pending" \in fails THEN AfterHandler(fails, ANALYZING)
         ELSE IF "pending_refresh" \in fails THEN AfterHandler(fails, PENDING)
         ELSE <<"returned", PENDING>>
    ELSE IF "repairing" \in fails THEN <<"returned", ANALYZING>>
    ELSE IF "repairing_refresh" \in fails THEN <<"returned", REPAIRING>>
    ELSE IF res.kind = "raise" \/ "final_save" \in fails THEN <<"returned", REPAIRING>>
    ELSE IF res.success THEN <<"returned", RESOLVED>>
    ELSE <<"returned", FAILED>>


\* C5: two process calls on the same request with the same flag, the same
\* Repository behaviour and the same executor behaviour end with the same
\* stored status and the same raise/return outcome, whether the Advisor and
\* the Trigger succeed or fail: how a call ends is a function of the flag,
\* the Repository failures and the executor's outcome.
C5_OutcomeIgnoresAdvisorAndTrigger ==
    \A t \in Tasks :
        (task[t].op = "process" /\ task[t].pc \in Ended)
        => \A i \in Ids :
             <<task[t].pc, db[i].status>>
               = ProcessOutcome(ENABLE_AUTO_REPAIR, task[t].repo_failed,
                                task[t].repair_result)

\* C5 happens: a process call has ended whose Advisor gave no text and whose
\* Trigger failed, so that the stored row carries neither
C5_Witness ==
    \E t \in Tasks :
        /\ task[t].op = "process" /\ task[t].pc = "returned"
        /\ ENABLE_AUTO_REPAIR
        /\ task[t].repair_result.kind = "result"
        /\ Row(t).status = RESOLVED
        /\ Row(t).kestra_execution_id = None
        /\ "ai_analysis" \notin Keys(Row(t).incident_metadata)

\* the status edges of the state machine
Edges ==
    { <<PENDING, ANALYZING>>, <<ANALYZING, PENDING>>, <<ANALYZING, REPAIRING>>,
      <<REPAIRING, RESOLVED>>, <<REPAIRING, FAILED>>,
      <<PENDING, FAILED>>, <<ANALYZING, FAILED>> }

\* C6: every change of an incident's stored status follows an edge of the
\* state machine; in particular REPAIRING is entered from ANALYZING only.
C6_StatusFollowsEdges ==
    [][\A i \in Ids :
         (db[i] # NoneInc /\ db'[i] # NoneInc /\ db'[i].status # db[i].status)
         => <<db[i].status, db'[i].status>> \in Edges]_vars

\* C7: once the stored status is RESOLVED, no operation changes the status
\* or the resolution of the stored incident.
C7_ResolvedIsTerminal ==
    [][\A i \in Ids :
         (db[i] # NoneInc /\ db[i].status = RESOLVED /\ db'[i] # NoneInc)
         => /\ db'[i].status = RESOLVED
            /\ db'[i].resolution = db[i].resolution]_vars

\* C8: POST /api/repair starts the repair subroutine only for an incident
\* whose stored status is PENDING or FAILED.
C8_ManualRepairGuarded ==
    [][\A t \in Tasks :
         (task[t].pc = "query" /\ task'[t].pc = "repairing")
         => Row(t).status \in {PENDING, FAILED}]_vars

\* C9: when a process call ends after its incident was created, the stored
\* status of that incident is PENDING, RESOLVED or FAILED.
C9_EndsInStableStatus ==
    [][\A t \in Tasks :
         (Ends(t, "process") /\ task'[t].incident_id \in Ids /\ RowAfter(t) # NoneInc)
         => RowAfter(t).status \in {PENDING, RESOLVED, FAILED}]_vars

\* task t raises in this step as a call of process_incident on a created incident
RaisesAfterCreation(t) ==
    /\ Ends(t, "process")
    /\ task'[t].pc = "raised"
    /\ task'[t].incident_id \in Ids

\* the stored incident is FAILED with the message of e, and e reaches the caller
FailedWith(t, e) ==
    /\ RowAfter(t).status = FAILED
    /\ RowAfter(t).resolution = "Processing failed: " \o e
    /\ task'[t].raised = e

RepoRaised(t) ==
    /\ task'[t] # task[t]
    /\ \/ task'[t].repo_failed \ task[t].repo_failed # {}
       \/ task'[t].swallowed # "none"

\* C11: a Repository failure in any step of a process call after creation
\* is fatal: the step ends in the top-level handler or raises to the caller,
\* and the call does not carry on as after a tolerable failure.
C11_RepositoryFailureIsFatal ==
    [][\A t \in Tasks :
         (task[t].op = "process" /\ RepoRaised(t))
         => task'[t].pc \in {"h_update", "raised"}]_vars

\* the create of task t raised in this step
CreateFailed(t) ==
    /\ task[t].op = "idle"
    /\ task'[t].op = "process"
    /\ task'[t].pc = "raised"

\* C12: when the Repository's create fails, process raises, no status is
\* written and no collaborator is called, and no incident of that request is
\* in the table for get or list to find.
C12_FailedCreateStoresNothing ==
    [][\A t \in Tasks :
         CreateFailed(t)
         => /\ task'[t].raised = RepoError
            /\ task'[t].executor_calls = 0
            /\ db' = db]_vars

\* task t takes step 3 of process_incident in this step
AnalysisStep(t) ==
    /\ task[t].pc = "analysis"
    /\ task'[t].pc = "trigger"

\* the stored incident of task t carries the analysis text after the step
AnalysisStored(t) ==
    /\ RowAfter(t) # NoneInc
    /\ <<"ai_analysis", AnalysisText>> \in RowAfter(t).incident_metadata.items

TriggerStep(t) ==
    /\ task[t].pc = "trigger"
    /\ task'[t] # task[t]

\* a step of the call whose Trigger returned a handle
HandleReturned(t) == TriggerStep(t) /\ task'[t].execution_id = "handle"

\* a step of a call that holds a copy of the incident read from the table
\* after the handle was stored: the repair subroutine's incident, or the
\* handler's db_incident
HandleCopied(t) ==
    /\ task'[t] # task[t]
    /\ \/ task[t].incident.kestra_execution_id = ExecutionId
       \/ /\ task[t].pc = "h_save"
          /\ task[t].db_incident.kestra_execution_id = ExecutionId

\* C14: the stored kestra_execution_id is set only by a Trigger call that
\* returned a handle, and is then that handle; a Trigger that failed or was
\* not called leaves the store as it is, so the handle stays absent; and
\* the pipeline goes on to step 5 in every case.
C14_HandleOnlyFromTrigger ==
    [][/\ \A t \in Tasks :
            TriggerStep(t)
            => /\ task'[t].pc = IF ENABLE_AUTO_REPAIR THEN "repairing" ELSE "pending"
               /\ task'[t].execution_id # "handle" => db' = db
       /\ \A i \in Ids :
            ( /\ db'[i].kestra_execution_id # db[i].kestra_execution_id
              /\ db'[i].kestra_execution_id # None )
            => /\ db'[i].kestra_execution_id = ExecutionId
               /\ \E t \in Tasks : HandleReturned(t) \/ HandleCopied(t)]_vars

\* C14 happens: the Trigger failed, the stored incident carries no handle,
\* and the call has gone on to step 5
C14_Witness ==
    \E t \in Tasks :
        /\ task[t].pc \in {"repairing", "pending"}
        /\ task[t].op = "process"
        /\ task[t].execution_id = "error"
        /\ Row(t) # NoneInc
        /\ Row(t).kestra_execution_id = None

\* the executor call of task t raised in this step
ExecutorRaised(t) ==
    /\ task[t].pc = "execute"
    /\ task'[t].repair_result.kind = "raise"

\* C15: when the executor call raises, the subroutine catches it: the
\* caller, process_incident or POST /api/repair, is answered normally, and
\* nothing stored changes, so that the status the subroutine stored,
\* REPAIRING, and the resolution remain.
C15_ExecutorRaiseIsSwallowed ==
    [][\A t \in Tasks :
         ExecutorRaised(t)
         => /\ task'[t].pc = "returned"
            /\ task'[t].raised = None
            /\ db' = db
            /\ task[t].incident.status = REPAIRING
            /\ Row(t) = task[t].incident
               => /\ RowAfter(t).status = REPAIRING
                  /\ RowAfter(t).resolution = task[t].incident.resolution]_vars

\* C15 happens: the executor of a process call raised, the call has
\* returned, and the stored incident is REPAIRING without a resolution
C15_Witness ==
    \E t \in Tasks :
        /\ task[t].op = "process" /\ task[t].pc = "returned"
        /\ task[t].repair_result.kind = "raise"
        /\ Row(t).status = REPAIRING
        /\ Row(t).resolution = None

\* the executor call of task t ran into its timeout in this step
ExecutorTimedOut(t) ==
    /\ task[t].pc = "execute"
    /\ task'[t].repair_result.cli = "timeout"

\* C16: a timeout of the executor call counts as an executor failure: the
\* incident ends FAILED with a resolution, never RESOLVED; a timeout of the
\* Trigger call, an error of that call, is tolerated; neither escapes the
\* process call.
C16_TimeoutIsExecutorFailure ==
    [][\A t \in Tasks :
         /\ ExecutorTimedOut(t)
            => /\ task'[t].pc = "returned"
               /\ RowAfter(t).status = FAILED
               /\ NonEmpty(RowAfter(t).resolution)
         /\ (TriggerStep(t) /\ task'[t].execution_id = "error")
            => task'[t].pc \in {"repairing", "pending"}]_vars

\* the order in which process_incident starts its calls
CallOrder == <<"create", "analysis", "trigger", "suggest", "execute">>

\* C17: the calls a process call has started so far are create, Advisor
\* analysis, Trigger, suggestions, Executor, in this order and each at most
\* once, with none left out before a later one: the Executor is started only
\* after the analysis and the trigger steps are over.
C17_CallsInOrder ==
    \A t \in Tasks :
        task[t].op = "process"
            => /\ Len(task[t].calls) <= Len(CallOrder)
               /\ task[t].calls = SubSeq(CallOrder, 1, Len(task[t].calls))

\* C17 happens: a process call has gone through all five calls and returned
C17_Witness ==
    \E t \in Tasks :
        /\ task[t].op = "process" /\ task[t].pc = "returned"
        /\ task[t].calls = CallOrder
        /\ task[t].executor_calls = 1

\* C18: the stored metadata only grows: a step of a process call or of a
\* manual repair leaves every key of the stored metadata of an incident in
\* place.
C18_MetadataAppendOnly ==
    [][\A i \in Ids :
         (db[i] # NoneInc /\ db'[i] # NoneInc)
            => Keys(db[i].incident_metadata)
                   \subseteq Keys(db'[i].incident_metadata)]_vars

\* the fields of an incident that are fixed when it is created
Fixed(row) ==
    [id |-> row.id, title |-> row.title, description |-> row.description,
     source |-> row.source, severity |-> row.severity,
     created_at |-> row.created_at]

\* C19: the stored id, title, description, source, severity and created_at
\* of an incident are those given to it at creation, after any steps of
\* process calls and repair subroutines.
C19_FixedFieldsKeepCreationValues ==
    \A i \in Ids :
        db[i] # NoneInc
            => \E req \in Requests : Fixed(db[i]) = Fixed(IncidentModel(i, req))

\* C19 happens: an incident went through analysis, trigger and a repair that
\* another call repeated: it is RESOLVED with every orchestrator field set
C19_Witness ==
    \E i \in Ids :
        /\ db[i] # NoneInc /\ db[i].status = RESOLVED
        /\ NonEmpty(db[i].resolution)
        /\ db[i].kestra_execution_id = ExecutionId
        /\ {"ai_analysis", "resolution_suggestions"}
               \subseteq Keys(db[i].incident_metadata)
        /\ \E t \in Tasks : task[t].op = "repair" /\ task[t].pc = "returned"

\* this step gives the stored incident i a resolution it did not have before
\* the step
ResolutionSet(i) ==
    /\ db[i] # NoneInc /\ db'[i] # NoneInc
    /\ db'[i].resolution # None
    /\ db[i].resolution # db'[i].resolution

\* this step of task t ends a repair attempt with the executor's report, or
\* is the save of the top-level handler
Concludes(t) ==
    /\ task'[t] # task[t]
    /\ \/ task[t].pc = "execute" /\ task'[t].repair_result.kind = "result"
       \/ task[t].pc = "h_save"

\* C20: the stored resolution is set only by the step that ends a repair
\* attempt with the executor's report and by the save of the top-level
\* handler; a process call with auto-repair disabled that returns normally
\* leaves an incident without a resolution as it is.
C20_ResolutionOnlyAtConclusion ==
    [][/\ \A i \in Ids : ResolutionSet(i) => \E t \in Tasks : Concludes(t)
       /\ \A t \in Tasks :
            (Returns(t) /\ ~ENABLE_AUTO_REPAIR /\ Row(t).resolution = None)
               => RowAfter(t).resolution = None]_vars

\* the save of the Advisor text by task t was committed in this step
AnalysisSaved(t) ==
    /\ task[t].pc = "analysis" /\ task'[t].pc = "trigger"
    /\ task'[t].analysis = "text" /\ task'[t].swallowed = "none"
    /\ task'[t].db_incident # NoneInc

\* the save of the suggestions by task t was committed in this step
SuggestionsSaved(t) ==
    /\ task[t].pc = "suggest" /\ task'[t].pc = "execute"
    /\ task'[t].resolution_suggestions = "text" /\ task'[t].swallowed = "none"

\* C21: no lock guards an incident: a save writes the caller's whole
\* snapshot over the stored row, whatever another call has stored there
\* since the snapshot was read, so that the stored row is the snapshot after
\* the save.
C21_SaveWritesWholeSnapshot ==
    [][\A t \in Tasks :
         /\ AnalysisSaved(t)
            => db'[task'[t].db_incident.id] = task'[t].db_incident
         /\ SuggestionsSaved(t)
            => db'[task'[t].incident.id] = task'[t].incident]_vars

\* C21 happens, a lost update: a process call has stored ai_analysis, and
\* after that a manual repair on the same id has stored its snapshot, read
\* before: the stored metadata is without the key
C21_Witness ==
    \E p \in Tasks, r \in Tasks :
        /\ task[p].op = "process" /\ task[p].pc = "trigger"
        /\ task[p].analysis = "text" /\ task[p].swallowed = "none"
        /\ "ai_analysis" \in Keys(task[p].db_incident.incident_metadata)
        /\ task[r].op = "repair" /\ task[r].pc = "execute"
        /\ task[r].resolution_suggestions = "text"
        /\ task[r].swallowed = "none"
        /\ task[r].incident.id = task[p].db_incident.id
        /\ db[task[r].incident.id] = task[r].incident
        /\ "ai_analysis" \notin Keys(db[task[r].incident.id].incident_metadata)

\* task t lists the incidents in this step
ListStep(t) ==
    task[t].op = "idle" /\ task'[t].op = "list" /\ task'[t].pc = "returned"

\* the stored incidents created after the reading c, and those created at c
\* or after it
Newer(c) == {i \in StoredIds(db) : db[i].created_at > c}
NotOlder(c) == {i \in StoredIds(db) : db[i].created_at >= c}

\* the length of the page skip .. skip + limit - 1 of n elements
PageLen(n, skip, limit) ==
    IF n <= skip THEN 0 ELSE IF n - skip < limit THEN n - skip ELSE limit

GetStep(t) ==
    /\ task[t].op = "idle" /\ task'[t].op = "get"
    /\ task'[t].http # 500

\* task t has created its incident and done nothing else: db_incident is the
\* record that _create_incident_record returned
JustCreated(t) == task[t].op = "process" /\ task[t].pc = "analyzing"

\* C23: get of the id that create returned, with no write to the incident in
\* between, yields a record with the id, title, description, severity,
\* source, metadata and created_at of the record that create returned; get
\* of an id that was never created yields 404 and no record.
C23_GetReturnsCreated ==
    [][\A u \in Tasks :
         GetStep(u) =>
            LET id == task'[u].incident_id
                got == task'[u].response
            IN /\ \A t \in Tasks :
                     ( /\ JustCreated(t)
                       /\ task[t].db_incident.id = id
                       /\ db[id] = task[t].db_incident )
                        => /\ task'[u].pc = "returned" /\ task'[u].http = 200
                           /\ got.id = task[t].db_incident.id
                           /\ got.title = task[t].request.title
                           /\ got.description = task[t].request.description
                           /\ got.severity = task[t].request.severity
                           /\ got.source = task[t].request.source
                           /\ got.metadata = task[t].request.metadata
                           /\ got.created_at = task[t].db_incident.created_at
               /\ id >= nextId
                     => /\ task'[u].pc = "raised" /\ task'[u].http = 404
                        /\ got = NoResponse]_vars

\* C23 happens: a get request has returned the record of an incident whose
\* process call has created it and not gone further
C23_Witness ==
    \E t \in Tasks, u \in Tasks :
        /\ JustCreated(t)
        /\ task[u].op = "get" /\ task[u].pc = "returned"
        /\ task[u].response.id = task[t].db_incident.id
        /\ task[u].response.metadata = task[t].request.metadata
        /\ task[u].response.metadata # NoMeta

\* C24: no two stored incidents share an id: not in the incidents table,
\* where the id is the primary key, and not in the detector's list, where
\* detect_from_signal makes the id from the signal.
C24_IdsAreUnique ==
    /\ \A i \in StoredIds(db) : db[i].id = i
    /\ \A j \in 1..Len(INCIDENTS), k \in 1..Len(INCIDENTS) :
          j # k => INCIDENTS[j].id # INCIDENTS[k].id

\* the stored status of incident i becomes FAILED in this step
BecomesFailed(i) ==
    /\ db'[i] # NoneInc /\ db'[i].status = FAILED
    /\ db[i] = NoneInc \/ db[i].status # FAILED

\* in this step the executor reports failure to task t
ExecutorFailed(t) ==
    /\ task[t].pc = "execute" /\ task'[t] # task[t]
    /\ task'[t].repair_result.kind = "result"
    /\ ~task'[t].repair_result.success

\* this is a step of the top-level handler of task t, which holds the
\* exception that escaped the pipeline
HandlerStep(t) ==
    /\ task[t].pc \in {"h_update", "h_save"} /\ task'[t] # task[t]
    /\ task[t].exc # None

\* C25: the stored status becomes FAILED only in the step in which the
\* executor reports failure and in the steps of the top-level handler; the
\* Advisor step and the Trigger step, whatever the two calls answer, neither
\* store FAILED nor enter the handler.
C25_FailedOnlyByExecutorOrHandler ==
    [][/\ \A i \in Ids :
            BecomesFailed(i)
               => \E t \in Tasks : ExecutorFailed(t) \/ HandlerStep(t)
       /\ \A t \in Tasks :
            (task[t].pc \in {"analysis", "trigger"} /\ task'[t] # task[t])
               => task'[t].pc \in {"trigger", "pending", "repairing"}]_vars

\* C25 happens: the Trigger call of a process call has failed, no analysis
\* was stored, no Repository call of the task has raised, and the pipeline
\* goes on with the incident ANALYZING
C25_Witness ==
    \E t \in Tasks :
        /\ task[t].op = "process" /\ task[t].pc = "pending"
        /\ task[t].execution_id = "error"
        /\ task[t].repo_failed = {}
        /\ Row(t).status = ANALYZING
        /\ "ai_analysis" \notin Keys(Row(t).incident_metadata)

\* the step of task t that asks for resolution suggestions, with an incident
SuggestStep(t) ==
    /\ task[t].pc = "suggest" /\ task'[t] # task[t]
    /\ task[t].incident # NoneInc

\* the stored incident of task t carries the suggestions after the step
SuggestionsStored(t) ==
    LET row == db'[task[t].incident.id]
    IN  /\ row # NoneInc
        /\ <<"resolution_suggestions", SuggestionText>>
               \in row.incident_metadata.items

\* the executor hands its result to task t in this step and the save of the
\* result commits
ResultSaved(t) ==
    /\ task[t].pc = "execute" /\ task'[t] # task[t]
    /\ task'[t].repair_result.kind = "result"
    /\ "final_save" \notin task'[t].repo_failed

\* the status that the result of the executor asks for
StatusOf(res) == IF res.success THEN RESOLVED ELSE FAILED

BeginStep(t) == task[t].pc = "repairing" /\ task'[t] # task[t]

\* C27: the executor is invoked only in a call whose repair subroutine has
\* stored REPAIRING for the incident before: the invocation follows the
\* request for suggestions, which follows the step that stored REPAIRING;
\* when that step raises in the Repository or finds no record, the call ends
\* without an invocation of the executor.
C27_RepairingBeforeExecutor ==
    [][\A t \in Tasks :
         /\ task'[t].executor_calls > task[t].executor_calls
            => task[t].pc = "execute"
         /\ (task'[t].pc = "execute" /\ task[t].pc # "execute")
            => /\ task[t].pc = "suggest"
               /\ task[t].incident # NoneInc
               /\ task[t].incident.status = REPAIRING
         /\ (task'[t].pc = "suggest" /\ task[t].pc # "suggest")
            => /\ BeginStep(t)
               /\ task'[t].repo_failed = task[t].repo_failed
               /\ \/ task'[t].incident = NoneInc
                  \/ db'[task'[t].incident.id] = task'[t].incident
         /\ ( /\ BeginStep(t)
              /\ task'[t].repo_failed # task[t].repo_failed )
            => /\ task'[t].pc \in {"returned", "raised", "h_update"}
               /\ task'[t].executor_calls = 0
         /\ ( /\ BeginStep(t)
              /\ \/ RepairArgument(task[t]) = NoneInc
                 \/ db[RepairArgument(task[t]).id] = NoneInc )
            => /\ task'[t].pc # "execute"
               /\ task'[t].incident = NoneInc
               /\ task'[t].executor_calls = 0
               /\ db' = db]_vars

\* C27 happens: the executor is about to be invoked for an incident that
\* the same call has put into REPAIRING
C27_Witness ==
    \E t \in Tasks :
        /\ task[t].pc = "execute" /\ task[t].executor_calls = 0
        /\ "suggest" \in {task[t].calls[k] : k \in 1..Len(task[t].calls)}
        /\ task[t].incident.status = REPAIRING
        /\ db[task[t].incident.id].status = REPAIRING

\* the process call of task t is cancelled in this step
CancelStep(t) ==
    /\ task[t].op = "process" /\ task[t].pc \notin Ended
    /\ task'[t].raised = CancelledError

\* C28: a process call that is cancelled ends with the cancellation: the
\* step stores nothing, neither a rollback nor FAILED, and the top-level
\* handler does not run, so the stored incident keeps the status, analysis
\* and handle it had, ANALYZING or REPAIRING among them.
C28_CancelStoresNothing ==
    [][\A t \in Tasks :
         CancelStep(t)
            => /\ db' = db
               /\ task'[t].pc = "raised"
               /\ Row(t) # NoneInc
               /\ RowAfter(t).status \in {ANALYZING, REPAIRING}]_vars

\* C28 happens: a process call was cancelled in its executor call, and the
\* stored incident is REPAIRING with the analysis and the handle
C28_Witness ==
    \E t \in Tasks :
        /\ task[t].op = "process" /\ task[t].pc = "raised"
        /\ task[t].raised = CancelledError
        /\ Row(t).status = REPAIRING
        /\ Row(t).kestra_execution_id = ExecutionId
        /\ "ai_analysis" \in Keys(Row(t).incident_metadata)

\* no Repository call has raised and no executor call has raised
NoFailure ==
    \A t \in Tasks :
        /\ task[t].repo_failed = {}
        /\ task[t].swallowed = "none"
        /\ task[t].repair_result.kind # "raise"

\* C29: when the event loop runs every ready task, no Repository call
\* raises and every executor call returns a result, an incident that is
\* stored REPAIRING is later stored RESOLVED or FAILED; and every process
\* call that has started returns or raises.
C29_RepairConcludes ==
    /\ ([]NoFailure)
          => \A i \in Ids :
                (db[i] # NoneInc /\ db[i].status = REPAIRING)
                   ~> (db[i] # NoneInc /\ db[i].status \in {RESOLVED, FAILED})
    /\ \A t \in Tasks :
          (task[t].op = "process") ~> (task[t].pc \in Ended \/ task[t].op = "done")

\* C29 happens: a process call has returned after its repair attempt, no
\* call has raised, and the incident is RESOLVED
C29_Witness ==
    \E t \in Tasks :
        /\ task[t].op = "process" /\ task[t].pc = "returned"
        /\ task[t].calls = CallOrder
        /\ task[t].repo_failed = {}
        /\ Row(t).status = RESOLVED

\* task t answers a manual repair request in this step, with incident_id
\* missing (0) or naming no stored incident, and its read does not raise
RepairRejected(t) ==
    /\ task[t].op = "idle" /\ task'[t].op = "repair"
    /\ task'[t].http # 500
    /\ \/ task'[t].incident_id = 0
       \/ db[task'[t].incident_id] = NoneInc

\* C30: POST /api/repair without incident_id is answered 400 and with an
\* id that is not stored 404; the request ends there: no step of the repair
\* subroutine runs and nothing that is stored changes.
C30_RepairRejectsUnknown ==
    [][\A t \in Tasks :
         RepairRejected(t)
            => /\ task'[t].http = IF task'[t].incident_id = 0 THEN 400 ELSE 404
               /\ task'[t].pc = "raised"
               /\ task'[t].calls = << >>
               /\ task'[t].executor_calls = 0
               /\ db' = db]_vars

\* C30 happens: a manual repair request that names an id without a stored
\* incident was answered 404
C30_Witness ==
    \E t \in Tasks :
        /\ task[t].op = "repair" /\ task[t].pc = "raised"
        /\ task[t].http = 404
        /\ task[t].incident_id \in Ids
        /\ db[task[t].incident_id] = NoneInc

\* the step of task t in which the ClineRunner is called
ClineStep(t) == task[t].pc = "execute" /\ task'[t] # task[t]

\* a step of the repair subroutine of task t
SubroutineStep(t) ==
    task[t].pc \in {"repairing", "suggest", "execute"} /\ task'[t] # task[t]

\* C31: ClineRunner.execute_repair hands back a dict with success true on
\* every path, a missing CLI, a non-zero exit code, a timeout and an
\* unwritable task file included, and raises nothing; so the step that calls
\* it ends the subroutine normally and, when its save commits, stores
\* RESOLVED with the text of the dict, and no step of the subroutine stores
\* FAILED.
C31_ClineAlwaysSucceeds ==
    [][\A t \in Tasks :
         /\ ClineStep(t)
            => /\ task'[t].repair_result.kind = "result"
               /\ task'[t].repair_result.success
               /\ task'[t].pc = "returned"
               /\ task'[t].raised = None
               /\ "final_save" \notin task'[t].repo_failed
                  => /\ RowAfter(t).status = RESOLVED
                     /\ RowAfter(t).resolution
                           = ResolutionOf(task'[t].repair_result)
         /\ SubroutineStep(t) => \A i \in Ids : ~BecomesFailed(i)]_vars

\* C31 happens: the CLI of a manual repair ran into its timeout, the call
\* has returned, and the incident is stored RESOLVED with the text of the
\* fallback
C31_Witness ==
    \E t \in Tasks :
        /\ task[t].op = "repair" /\ task[t].pc = "returned"
        /\ task[t].repair_result.cli = "timeout"
        /\ Row(t).status = RESOLVED
        /\ Row(t).resolution = "Simulated repair complete (Cline fallback)"

\* C32: the repair subroutine never raises: after each of its steps it goes
\* on or its caller is answered normally, a Repository failure of the
\* REPAIRING update, of the save of the suggestions or of the final save
\* included; no process call enters the top-level handler or raises, and no
\* manual repair raises, in a step of the subroutine.
C32_SubroutineNeverRaises ==
    [][\A t \in Tasks :
         SubroutineStep(t)
            => /\ task'[t].pc \in {"suggest", "execute", "returned"}
               /\ task'[t].raised = None
               /\ task'[t].exc = None]_vars

\* incident i was created and a DELETE of it has succeeded: ids are not
\* given out twice, and rows are removed by nothing else
Deleted(i) == i < nextId /\ db[i] = NoneInc

\* what get and list show of incident i when the table is store
Observable(store, i) ==
    \/ get_incident(store, i) # NoResponse
    \/ \E k \in 1..Len(list_incidents(store, 0, Cardinality(Ids))) :
          list_incidents(store, 0, Cardinality(Ids))[k].id = i

\* C33: once the DELETE of an incident has succeeded, no later step makes
\* its id observable through get or list again, the saves of a process call
\* or manual repair that was in flight at the delete included.
C33_DeletedStaysDeleted ==
    [][\A i \in Ids : Deleted(i) => ~Observable(db', i)]_vars

\* C34: in every reachable state a stored incident that has a resolution is
\* RESOLVED or FAILED: no incident in PENDING, ANALYZING or REPAIRING carries
\* one, after a manual repair of a failed or resolved incident either.
C34_ResolutionImpliesConcluded ==
    \A i \in Ids :
        (db[i] # NoneInc /\ db[i].resolution # None)
            => db[i].status \in {RESOLVED, FAILED}

\* C35: when the Advisor returns no text in step 3, None or an empty string,
\* as the Gemini client does when it is not configured, when its backend
\* raises and when the response is blank, the step makes no Repository call and adds no ai_analysis key: what is
\* stored and the snapshot of the call are the same before and after the
\* step, and the pipeline goes on to the Trigger step.
C35_NoTextNoWrite ==
    [][\A t \in Tasks :
         (/\ task[t].pc = "analysis"
          /\ \E backend \in GeminiBackends \ {"answers"} :
                task'[t].analysis = _generate(backend))
            => /\ db' = db
               /\ task'[t].db_incident = task[t].db_incident
               /\ task'[t].swallowed = "none"
               /\ task'[t].repo_failed = task[t].repo_failed
               /\ task'[t].pc = "trigger"]_vars

\* C35 happens: the Advisor returned no text, and the incident is stored
\* ANALYZING as the snapshot of the call has it, without an ai_analysis key
C35_Witness ==
    \E t \in Tasks :
        /\ task[t].op = "process" /\ task[t].pc = "trigger"
        /\ task[t].analysis = "empty"
        /\ Row(t) = task[t].db_incident
        /\ Row(t).status = ANALYZING
        /\ "ai_analysis" \notin Keys(Row(t).incident_metadata)

\* C36: a manual repair that has found its incident stored answers
\* {status: repair_triggered} whatever the repair attempt did: whenever the
\* subroutine is over, the answer is 200 with that body and no error.
C36_RepairAlwaysTriggered ==
    [][\A t \in Tasks :
         (task[t].op = "repair" /\ SubroutineStep(t) /\ task'[t].pc \in Ended)
            => /\ task'[t].pc = "returned"
               /\ task'[t].http = 200
               /\ task'[t].body = "repair_triggered"
               /\ task'[t].raised = None]_vars
====
